---- MODULE Spec2Model ----
(***************************************************************************)
(* A model of the sequencing-by-hybridization assembler:                   *)
(*   src/src/utils.rs          the k-mer codec (vec2idx, idx2vec)           *)
(*   src/src/sbh_assembler.rs  the multigraph, the path/cycle walk, the     *)
(*                             contig builder and the two condensations     *)
(*   src/src/main.rs           the driver and its condensation loop         *)
(*                                                                         *)
(* Symbols are the bytes the code matches on: 65 A, 67 C, 71 G, 84 T.      *)
(* A HashMap is a function over the set of its keys; its iteration order   *)
(* is arbitrary, so every "first key that ..." is a choice among all the   *)
(* keys that qualify.  An Rc<RefCell<Node>> is the node's key: every clone *)
(* of the Rc reads and writes the one cell held in Assembler::nodes.       *)
(***************************************************************************)
EXTENDS Integers, Sequences, FiniteSets, TLC

VARIABLES
    pc,          \* position of the run
    reads,       \* main: the reads handed to Assembler::new
    nodes,       \* Assembler::nodes   idx -> [idx, ideg, odeg]
    graph,       \* Assembler::graph   pidx -> (sidx -> sequence of edges)
    paths,       \* Assembler::paths   sequences of node keys
    cycles,      \* Assembler::cycles
    contigs,     \* Assembler::contigs
    typ,         \* populate_paths_or_cycles: the PathType of the call
    starts,      \* populate_paths_or_cycles: the start nodes not yet walked
    start,       \* find_path_or_cycle: start
    path,        \* find_path_or_cycle: path
    current,     \* find_path_or_cycle: current
    walk_u,      \* the number of unused edges the walk under way began with
    min_overlap, \* merge_contigs: min_overlap
    prev,        \* main: prev
    rounds,      \* main: rounds of the condensation loop completed
    n0,          \* main: contig count when the condensation loop began
    removed,     \* value returned by the last remove_contained_contigs
    merged,      \* value returned by the last merge_contigs
    before,      \* the contig collection before the last condensation call
    calls,       \* the last two condensation calls made, oldest first
    cursor,      \* merge_contigs: i
    overlaps,    \* merge_contigs: overlaps, j -> the result collected for j
    pending,     \* merge_contigs: the j whose overlap test has not completed
    running,     \* merge_contigs: j -> the two contigs a test in progress reads
    applied,     \* merge_contigs: the last for loop left by break
    to_remove,   \* remove_contained_contigs: to_remove
    tasks,       \* remove_contained_contigs: i -> position of the closure run for i
    cin,         \* codec: the string given to vec2idx
    ckey,        \* codec: the key vec2idx returned
    cout         \* codec: the string idx2vec returned

vars == <<pc, reads, nodes, graph, paths, cycles, contigs, typ, starts, start,
          path, current, walk_u, min_overlap, prev, rounds, n0, removed, merged,
          before, calls, cursor, overlaps, pending, running, applied,
          to_remove, tasks, cin, ckey, cout>>

graphVars == <<reads, nodes, graph, paths, cycles, typ, starts, start, path, current,
               walk_u>>
condVars  == <<min_overlap, prev, rounds, n0, removed, merged, before, calls>>
codecVars == <<cin, ckey, cout>>
stepVars  == <<cursor, overlaps, pending, running, applied, to_remove, tasks>>

(***************************************************************************)
(* Bounds of the model and constants of the program.                       *)
(***************************************************************************)
KLen == 15            \* k-mer length: take(15), skip(len - 15), idx2vec(_, 15)
ReadLen == 30         \* fasta_reader keeps only the lines of 30 symbols
MinPathLen == 5       \* a path is kept when p.len() >= 5
MinCycleLen == 3      \* a cycle is kept when p.len() >= 3
UsizeMax == 2147483647 \* prev = usize::MAX: a count no collection reaches
Panic == -1           \* vec2idx did not return: panic!("VALS CAN ONLY BE ...")
MainMinOverlap == 15  \* ass.merge_contigs(15)

NumKmers == 3         \* distinct k-mers the reads are drawn over
MaxReads == 4         \* reads given to Assembler::new
CodecWindow == 2      \* positions of a codec input that vary freely
MaxLen == 2           \* longest contig of an initial collection
MaxContigs == 3       \* contigs of an initial collection
MaxOverlap == 2       \* largest min_overlap passed to merge_contigs

Symbols == {65, 67, 71, 84}
OtherBytes == {78}    \* 'N': a byte outside the alphabet
BadSymbol == CHOOSE b \in OtherBytes : TRUE

Min(a, b) == IF a < b THEN a ELSE b
Max(a, b) == IF a < b THEN b ELSE a

(***************************************************************************)
(* K-mer codec (utils.rs).                                                 *)
(***************************************************************************)
\* the mutant: an unknown byte is encoded as 0 instead of panicking
SymValLenient(c) ==
    CASE c = 65 -> 0
      [] c = 67 -> 1
      [] c = 71 -> 2
      [] c = 84 -> 3
      [] OTHER  -> 0

\* match c { 65 => 0, 67 => 1, 71 => 2, 84 => 3, _ => panic!(..) }
SymVal(c) ==
    CASE c = 65 -> 0
      [] c = 67 -> 1
      [] c = 71 -> 2
      [] c = 84 -> 3
      [] OTHER  -> Panic

\* read.iter().take(15)  |  read.iter().skip(read.len() - 15)
KmerOf(read, t) ==
    IF t = "Prefix"
    THEN SubSeq(read, 1, Min(KLen, Len(read)))
    ELSE SubSeq(read, Len(read) - KLen + 1, Len(read))

\* for (i, c) in iter.enumerate() { idx += v * 4u32.pow(i) }, i from 0.
\* The largest key is 4^15 - 1 < 2^32, so the u32 sum never wraps.
RECURSIVE Vec2IdxFrom(_, _, _)
Vec2IdxFrom(kmer, i, idx) ==
    IF i >= Len(kmer) THEN idx
    ELSE LET v == SymVal(kmer[i + 1])
         IN  IF v = Panic THEN Panic
             ELSE Vec2IdxFrom(kmer, i + 1, idx + v * (4 ^ i))

vec2idx(read, t) == Vec2IdxFrom(KmerOf(read, t), 0, 0)

\* 0 => 65, 1 => 67, 2 => 71, 3 => 84
ValSym(v) ==
    CASE v = 0 -> 65
      [] v = 1 -> 67
      [] v = 2 -> 71
      [] v = 3 -> 84

\* for _ in 0..length { result.push(sym(idx % 4)); idx /= 4; }
RECURSIVE Idx2VecFrom(_, _, _)
Idx2VecFrom(idx, length, result) ==
    IF Len(result) >= length THEN result
    ELSE Idx2VecFrom(idx \div 4, length, Append(result, ValSym(idx % 4)))

\* the mutant: the digits are emitted most significant first
RECURSIVE Idx2VecBigEndian(_, _)
Idx2VecBigEndian(idx, length) ==
    IF length = 0 THEN <<>>
    ELSE Append(Idx2VecBigEndian(idx \div 4, length - 1), ValSym(idx % 4))

idx2vec(idx, length) == Idx2VecFrom(idx, length, <<>>)

(***************************************************************************)
(* Multigraph model (sbh_assembler.rs): Node, Edge, Assembler::new.        *)
(***************************************************************************)
EmptyMap == [x \in {} |-> x]

\* Node::new(idx, ideg, odeg)
Node_new(idx, ideg, odeg) == [idx |-> idx, ideg |-> ideg, odeg |-> odeg]

\* Edge::new(prefix, suffix): the two Rc handles are the nodes' keys
Edge_new(prefix, suffix) == [prefix |-> prefix, suffix |-> suffix, used |-> FALSE]

\* nodes.entry(pidx).and_modify(|n| n.odeg += 1).or_insert_with(|| Node::new(pidx, 0, 1))
EntryPrefix(ns, pidx) ==
    IF pidx \in DOMAIN ns
    THEN [ns EXCEPT ![pidx].odeg = @ + 1]
    ELSE ns @@ (pidx :> Node_new(pidx, 0, 1))

\* nodes.entry(sidx).and_modify(|n| n.ideg += 1).or_insert_with(|| Node::new(sidx, 1, 0))
EntrySuffix(ns, sidx) ==
    IF sidx \in DOMAIN ns
    THEN [ns EXCEPT ![sidx].ideg = @ + 1]
    ELSE ns @@ (sidx :> Node_new(sidx, 1, 0))

\* graph.entry(pidx).or_insert_with(HashMap::new).entry(sidx).or_insert_with(Vec::new).push(edge)
InsertEdge(g, pidx, sidx) ==
    LET sufs   == IF pidx \in DOMAIN g THEN g[pidx] ELSE EmptyMap
        bucket == IF sidx \in DOMAIN sufs THEN sufs[sidx] ELSE <<>>
        sufs2  == [k \in DOMAIN sufs \cup {sidx} |->
                      IF k = sidx THEN Append(bucket, Edge_new(pidx, sidx)) ELSE sufs[k]]
    IN  [k \in DOMAIN g \cup {pidx} |-> IF k = pidx THEN sufs2 ELSE g[k]]

\* the body of "for read in reads.iter()", from read number i on; a panic in
\* vec2idx unwinds out of Assembler::new, whose locals are dropped
RECURSIVE BuildFrom(_, _, _, _)
BuildFrom(rs, i, ns, g) ==
    IF i > Len(rs) THEN [panicked |-> FALSE, nodes |-> ns, graph |-> g]
    ELSE LET pidx == vec2idx(rs[i], "Prefix")
             sidx == vec2idx(rs[i], "Suffix")
         IN  IF pidx = Panic \/ sidx = Panic
             THEN [panicked |-> TRUE, nodes |-> EmptyMap, graph |-> EmptyMap]
             ELSE BuildFrom(rs, i + 1,
                            EntrySuffix(EntryPrefix(ns, pidx), sidx),
                            InsertEdge(g, pidx, sidx))

Assembler_new(rs) == BuildFrom(rs, 1, EmptyMap, EmptyMap)

\* the mutant: only the decrement of the source is kept
MarkUsedNoIdeg(ns, e) ==
    [nodes |-> [ns EXCEPT ![e.prefix].odeg = @ - 1],
     edge  |-> [e EXCEPT !.used = TRUE]]

\* the mutant: the flag is not set
MarkUsedNoFlag(ns, e) ==
    [nodes |-> [[ns EXCEPT ![e.prefix].odeg = @ - 1] EXCEPT ![e.suffix].ideg = @ - 1],
     edge  |-> e]

\* Edge::mark_used: prefix.odeg -= 1; suffix.ideg -= 1; used = true
mark_used(ns, e) ==
    [nodes |-> [[ns EXCEPT ![e.prefix].odeg = @ - 1] EXCEPT ![e.suffix].ideg = @ - 1],
     edge  |-> [e EXCEPT !.used = TRUE]]

(***************************************************************************)
(* Path/Cycle extractor (sbh_assembler.rs).                                *)
(***************************************************************************)
\* the filter_map of populate_paths_or_cycles
IsStart(n, t) ==
    \/ t = "Path"  /\ n.odeg > n.ideg
    \/ t = "Cycle" /\ n.odeg > 0 /\ n.ideg > 0

\* sufs.keys().find(|idx| sufs.get(idx).iter().all(|e| !e.used)): the keys the
\* find can return, the HashMap's order being arbitrary
Candidates(g, cur) ==
    IF cur \notin DOMAIN g THEN {}
    ELSE {idx \in DOMAIN g[cur] :
             \A k \in 1..Len(g[cur][idx]) : ~g[cur][idx][k].used}

\* iter_mut().find(|e| !e.used): the position of the first unused edge, 0 if none
FirstUnused(bucket) ==
    IF \E k \in 1..Len(bucket) : ~bucket[k].used
    THEN CHOOSE k \in 1..Len(bucket) :
             /\ ~bucket[k].used
             /\ \A m \in 1..(k - 1) : bucket[m].used
    ELSE 0

\* the mutant: the new node is compared with current, not with start
NodeEqCurrent(ns, a, b) == ns[a] = ns[current]

\* the mutant: start is a copy of the node, made before the edge was marked
NodeEqCopy(ns, a, b) == ns[a] = Node_new(b, ns[b].ideg + 1, ns[b].odeg)

\* node == start on Rc<RefCell<Node>>: #[derive(PartialEq)] on Node compares
\* idx, ideg and odeg of the two cells as they are now
NodeEq(ns, a, b) == ns[a] = ns[b]

\* the mutant: a path is kept from 4 nodes on
KeepOffByOne(t, p) ==
    \/ t = "Path"  /\ Len(p) >= MinPathLen - 1
    \/ t = "Cycle" /\ Len(p) >= MinCycleLen

\* the mutant: the cycle threshold is used for paths too
KeepCycleThreshold(t, p) == Len(p) >= MinCycleLen

\* PathType::Path => if p.len() >= 5 .. ; PathType::Cycle => if p.len() >= 3 ..
Keep(t, p) ==
    \/ t = "Path"  /\ Len(p) >= MinPathLen
    \/ t = "Cycle" /\ Len(p) >= MinCycleLen

\* the match after find_path_or_cycle returns p
Retain(t, p) ==
    /\ paths'  = IF t = "Path"  /\ Keep(t, p) THEN Append(paths, p)  ELSE paths
    /\ cycles' = IF t = "Cycle" /\ Keep(t, p) THEN Append(cycles, p) ELSE cycles

(***************************************************************************)
(* Contig builder (sbh_assembler.rs).                                      *)
(***************************************************************************)
\* for node in path_or_cycle { contig.extend_from_slice(&idx2vec(node.idx, 15)) }
RECURSIVE ContigOf(_, _)
ContigOf(p, i) ==
    IF i > Len(p) THEN <<>> ELSE idx2vec(nodes[p[i]].idx, KLen) \o ContigOf(p, i + 1)

\* the mutant: the contig under construction is pushed once more after the loop
AllContigsTrailing(ps, cs) ==
    [i \in 1..(Len(ps) + Len(cs)) |->
        IF i <= Len(ps) THEN ContigOf(ps[i], 1) ELSE ContigOf(cs[i - Len(ps)], 1)]
    \o << <<>> >>

\* self.paths.iter().chain(self.cycles.iter())
AllContigs(ps, cs) == [i \in 1..(Len(ps) + Len(cs)) |->
                          IF i <= Len(ps) THEN ContigOf(ps[i], 1)
                          ELSE ContigOf(cs[i - Len(ps)], 1)]

(***************************************************************************)
(* Inputs of the graph specification: reads of ReadLen symbols, a prefix   *)
(* k-mer followed by a suffix k-mer, both drawn from a pool of NumKmers    *)
(* k-mers, and reads holding one byte outside the alphabet.                *)
(***************************************************************************)
SymOf(n) == ValSym(n % 4)

\* k-mer number n: its first two symbols spell n, its last one varies with n
PoolKmer(n) == [i \in 1..KLen |->
                   IF i = 1 THEN SymOf(n)
                   ELSE IF i = 2 THEN SymOf(n \div 4)
                   ELSE IF i = KLen THEN SymOf(n + 1)
                   ELSE 65]

\* valid read number r, from 1: prefix k-mer (r - 1) \div NumKmers, suffix
\* k-mer (r - 1) % NumKmers
PrefixNo(r) == (r - 1) \div NumKmers
SuffixNo(r) == (r - 1) % NumKmers
ValidRead(r) == PoolKmer(PrefixNo(r)) \o PoolKmer(SuffixNo(r))

\* a read with a bad byte in its prefix k-mer, and one with a bad byte in its
\* suffix k-mer
BadReads == {[ValidRead(2) EXCEPT ![3] = BadSymbol],
             [ValidRead(2) EXCEPT ![ReadLen] = BadSymbol]}

\* The graph depends on which reads there are and how many of each, not on
\* their order (the order shows only inside a bucket, whose edges come from
\* equal reads), and the k-mers are interchangeable (keys are compared for
\* equality only and every HashMap order is explored).  So one sequence is
\* drawn per multiset of reads, its read numbers nondecreasing, and one
\* numbering per shape, the k-mers first appearing in the order 0, 1, 2, ...:
\* mx is the largest k-mer number seen so far, k the reads still to add.
RECURSIVE ReadShapes(_, _, _, _)
ReadShapes(s, last, mx, k) ==
    {s} \cup
    (IF k = 0 THEN {}
     ELSE UNION {ReadShapes(Append(s, r), r, Max(mx, Max(PrefixNo(r), SuffixNo(r))), k - 1) :
                    r \in {x \in last..(NumKmers * NumKmers) :
                              /\ PrefixNo(x) <= mx + 1
                              /\ SuffixNo(x) <= Max(mx, PrefixNo(x)) + 1}})

ValidInputs == {[i \in 1..Len(s) |-> ValidRead(s[i])] : s \in ReadShapes(<<>>, 1, -1, MaxReads)}

\* the valid inputs, and those with one bad read put last or first
ReadInputs ==
    ValidInputs
    \cup {Append(v, b) : v \in {x \in ValidInputs : Len(x) < MaxReads}, b \in BadReads}
    \cup {<<b>> \o v : v \in {x \in ValidInputs : Len(x) < MaxReads}, b \in BadReads}

HasBadSymbol(read) == \E i \in 1..Len(read) : read[i] \notin Symbols

\* the edges of a graph, each named by its source, its destination and its
\* position in the bucket
EdgesOf(g) == {<<p, q, k>> \in UNION {UNION {{<<p2, q2, k2>> : k2 \in 1..Len(g[p2][q2])}
                                                : q2 \in DOMAIN g[p2]} : p2 \in DOMAIN g} : TRUE}

UnusedEdges(g) == {e \in EdgesOf(g) : ~g[e[1]][e[2]][e[3]].used}
UsedEdges(g)   == {e \in EdgesOf(g) : g[e[1]][e[2]][e[3]].used}

(***************************************************************************)
(* The graph specification: main up to paths_cycles_to_contigs, with the   *)
(* populate calls in any order and number.                                 *)
(***************************************************************************)
CondIdle ==
    /\ min_overlap = 0 /\ prev = 0 /\ rounds = 0 /\ n0 = 0
    /\ removed = 0 /\ merged = 0 /\ before = <<>> /\ calls = <<>>

CodecIdle == cin = <<>> /\ ckey = 0 /\ cout = <<>>

StepIdle ==
    /\ cursor = 0 /\ overlaps = EmptyMap /\ pending = {} /\ running = EmptyMap
    /\ applied = FALSE /\ to_remove = <<>> /\ tasks = <<>>

GraphIdle ==
    /\ reads = <<>> /\ nodes = EmptyMap /\ graph = EmptyMap
    /\ paths = <<>> /\ cycles = <<>>
    /\ typ = "Path" /\ starts = {} /\ start = 0 /\ path = <<>> /\ current = 0
    /\ walk_u = 0

Init ==
    /\ pc = "new"
    /\ reads \in ReadInputs
    /\ nodes = EmptyMap /\ graph = EmptyMap
    /\ paths = <<>> /\ cycles = <<>> /\ contigs = <<>>
    /\ typ = "Path" /\ starts = {} /\ start = 0 /\ path = <<>> /\ current = 0
    /\ walk_u = 0
    /\ CondIdle /\ CodecIdle /\ StepIdle

\* let mut ass = Assembler::new(reads)
New ==
    /\ pc = "new"
    /\ LET res == Assembler_new(reads)
       IN  /\ pc' = IF res.panicked THEN "panicked" ELSE "idle"
           /\ nodes' = res.nodes
           /\ graph' = res.graph
    /\ UNCHANGED <<reads, paths, cycles, contigs, typ, starts, start, path, current, walk_u>>
    /\ UNCHANGED <<condVars, codecVars, stepVars>>

\* populate_paths_or_cycles(t): the starts are collected before any walk
Populate(t) ==
    /\ pc = "idle"
    /\ typ' = t
    /\ starts' = {idx \in DOMAIN nodes : IsStart(nodes[idx], t)}
    /\ pc' = "starts"
    /\ UNCHANGED <<reads, nodes, graph, paths, cycles, contigs, start, path, current, walk_u>>
    /\ UNCHANGED <<condVars, codecVars, stepVars>>

\* for start in starts: find_path_or_cycle begins with path = vec![start]
BeginWalk ==
    /\ pc = "starts"
    /\ \E s \in starts :
          /\ starts' = starts \ {s}
          /\ start' = s
          /\ path' = <<s>>
          /\ current' = s
    /\ walk_u' = Cardinality(UnusedEdges(graph))
    /\ pc' = "walk"
    /\ UNCHANGED <<reads, nodes, graph, paths, cycles, contigs, typ>>
    /\ UNCHANGED <<condVars, codecVars, stepVars>>

\* the for loop over starts is over: populate_paths_or_cycles returns
EndPopulate ==
    /\ pc = "starts"
    /\ starts = {}
    /\ pc' = "idle"
    /\ typ' = "Path"
    /\ UNCHANGED <<reads, nodes, graph, paths, cycles, contigs, starts, start, path, current,
                   walk_u>>
    /\ UNCHANGED <<condVars, codecVars, stepVars>>

\* one turn of the loop of find_path_or_cycle that finds a next bucket; when
\* the walk returns here, its locals are gone and populate keeps or drops p
WalkStep ==
    /\ pc = "walk"
    /\ \E idx \in Candidates(graph, current) :
          LET bucket == graph[current][idx]
              k      == FirstUnused(bucket)
              m      == mark_used(nodes, bucket[k])
              p      == Append(path, idx)
          IN  /\ nodes' = m.nodes
              /\ graph' = [graph EXCEPT ![current][idx][k] = m.edge]
              /\ IF typ = "Cycle" /\ NodeEq(m.nodes, idx, start)
                 THEN /\ Retain(typ, p)
                      /\ pc' = "starts"
                      /\ start' = 0 /\ path' = <<>> /\ current' = 0
                      /\ walk_u' = 0
                 ELSE /\ UNCHANGED <<paths, cycles, start, walk_u>>
                      /\ pc' = "walk"
                      /\ path' = p
                      /\ current' = idx
    /\ UNCHANGED <<reads, contigs, typ, starts>>
    /\ UNCHANGED <<condVars, codecVars, stepVars>>

\* the turn that finds none: the walk returns its path
WalkStuck ==
    /\ pc = "walk"
    /\ Candidates(graph, current) = {}
    /\ Retain(typ, path)
    /\ pc' = "starts"
    /\ start' = 0 /\ path' = <<>> /\ current' = 0
    /\ walk_u' = 0
    /\ UNCHANGED <<reads, nodes, graph, contigs, typ, starts>>
    /\ UNCHANGED <<condVars, codecVars, stepVars>>

\* paths_cycles_to_contigs
ToContigs ==
    /\ pc = "idle"
    /\ contigs' = contigs \o AllContigs(paths, cycles)
    /\ pc' = "built"
    /\ UNCHANGED graphVars
    /\ UNCHANGED <<condVars, codecVars, stepVars>>

Next ==
    \/ New
    \/ \E t \in {"Path", "Cycle"} : Populate(t)
    \/ BeginWalk
    \/ EndPopulate
    \/ WalkStep
    \/ WalkStuck
    \/ ToContigs

Spec == Init /\ [][Next]_vars

(***************************************************************************)
(* Properties of the graph specification.                                  *)
(***************************************************************************)
Built == pc \notin {"new", "panicked"}

\* C1: once the graph is built, and through every Path and Cycle traversal,
\* each node's out_degree is the number of unused edges leaving it and its
\* in_degree the number of unused edges entering it; neither is negative.
C1_DegreeInvariant ==
    Built =>
        \A n \in DOMAIN nodes :
            /\ nodes[n].odeg = Cardinality({e \in UnusedEdges(graph) : e[1] = n})
            /\ nodes[n].ideg = Cardinality({e \in UnusedEdges(graph) : e[2] = n})
            /\ nodes[n].odeg >= 0
            /\ nodes[n].ideg >= 0

\* a walk under way that has consumed an edge, with unused edges left at a
\* node that has both kinds
C1_Witness ==
    /\ pc = "walk"
    /\ UsedEdges(graph) # {}
    /\ \E n \in DOMAIN nodes : nodes[n].odeg >= 1 /\ nodes[n].ideg >= 1

\* what one step may do to the edges and the counters
C2_Step ==
    Built =>
        /\ EdgesOf(graph') = EdgesOf(graph)
        /\ \A e \in EdgesOf(graph) :
              /\ graph'[e[1]][e[2]][e[3]].prefix = graph[e[1]][e[2]][e[3]].prefix
              /\ graph'[e[1]][e[2]][e[3]].suffix = graph[e[1]][e[2]][e[3]].suffix
              /\ graph[e[1]][e[2]][e[3]].used => graph'[e[1]][e[2]][e[3]].used
        /\ LET flipped == UnusedEdges(graph) \cap UsedEdges(graph')
           IN  /\ Cardinality(flipped) <= 1
               /\ flipped = {} => nodes' = nodes
               /\ \A e \in flipped :
                     nodes' = [[nodes EXCEPT ![e[1]].odeg = @ - 1]
                                      EXCEPT ![e[2]].ideg = @ - 1]

\* C2: over any sequence of populate calls an edge's used flag only goes from
\* false to true, never back; the step that sets it takes one from the
\* source's out_degree and one from the destination's in_degree, and the
\* counters change in no other step, so no edge is marked twice.
C2_EdgeOnce == [][C2_Step]_vars

\* a walk that has consumed two edges and stands in a graph where a bucket
\* holds a used edge beside an unused one
C2_Witness ==
    /\ pc = "walk"
    /\ Cardinality(UsedEdges(graph)) >= 2
    /\ \E e \in UsedEdges(graph) : \E f \in UnusedEdges(graph) :
          e[1] = f[1] /\ e[2] = f[2]

\* C7: every sequence in paths has at least 5 nodes and every sequence in
\* cycles at least 3.
C7_Thresholds ==
    /\ \A i \in 1..Len(paths) : Len(paths[i]) >= 5
    /\ \A i \in 1..Len(cycles) : Len(cycles[i]) >= 3

\* a populate(Path) that has kept a path and is not over
C7_Witness == pc = "starts" /\ typ = "Path" /\ paths # <<>>

\* two reads, the prefix k-mer of one being the suffix k-mer of the other
C9_TwoReads ==
    /\ Len(reads) = 2
    /\ \E i, j \in 1..2 :
          i # j /\ KmerOf(reads[i], "Prefix") = KmerOf(reads[j], "Suffix")

\* a Path walk at its end: no bucket to go on with
PathWalkOver == pc = "walk" /\ typ = "Path" /\ Candidates(graph, current) = {}

\* C9, as claimed: such a graph has exactly 2 nodes, a Path walk returns 2
\* nodes, and populate(Path) keeps nothing.
C9_Original ==
    (C9_TwoReads /\ Built) =>
        /\ Cardinality(DOMAIN nodes) = 2
        /\ PathWalkOver => Len(path) = 2
        /\ paths = <<>>

\* C9, amended: such a graph has at most 3 nodes, a Path walk returns 2 or 3
\* nodes, and populate(Path) keeps nothing.
C9_Amended ==
    (C9_TwoReads /\ Built) =>
        /\ Cardinality(DOMAIN nodes) <= 3
        /\ PathWalkOver => Len(path) \in {2, 3}
        /\ paths = <<>>

\* the chain of three nodes, walked to its end
C9_Witness ==
    /\ C9_TwoReads
    /\ PathWalkOver
    /\ Cardinality(DOMAIN nodes) = 3
    /\ Len(path) = 3

\* C10: when a read holds a byte outside {A, C, G, T} the run stops in
\* Assembler::new: there is no graph, no path, no cycle and no contig.
C10_BadSymbolAborts ==
    (\E i \in 1..Len(reads) : HasBadSymbol(reads[i])) =>
        /\ pc \in {"new", "panicked"}
        /\ nodes = EmptyMap /\ graph = EmptyMap
        /\ paths = <<>> /\ cycles = <<>> /\ contigs = <<>>

\* the run has stopped on a bad read that came after two valid ones
C10_Witness ==
    /\ pc = "panicked"
    /\ Len(reads) >= 3
    /\ ~HasBadSymbol(reads[1]) /\ ~HasBadSymbol(reads[2])

\* the edges not yet consumed that leave node n
UnusedOut(n) == {e \in UnusedEdges(graph) : e[1] = n}

\* the walk stands at the turn of its loop that finds no next bucket
WalkIsStuck == pc = "walk" /\ Candidates(graph, current) = {}

\* C12: a walk that has an unconsumed edge leaving its current node takes a
\* step, so a walk is Stuck only at a node with no unconsumed outgoing edge,
\* whose out_degree is then 0, buckets of parallel edges included.
C12_StuckOnlyAtDeadEnd ==
    WalkIsStuck => (UnusedOut(current) = {} /\ nodes[current].odeg = 0)

\* the sequence p ends on the node it starts on
Closed(p) == p[Len(p)] = p[1]

\* C14, as claimed: every sequence populate(Cycle) has kept is closed: the
\* key of its last node is the key of its first node.
C14_Original == \A i \in 1..Len(cycles) : Closed(cycles[i])

\* what the amended C14 says of a step that adds to cycles
C14_Step ==
    cycles' # cycles =>
        /\ pc = "walk" /\ typ = "Cycle"
        /\ Len(cycles') = Len(cycles) + 1
        /\ SubSeq(cycles', 1, Len(cycles)) = cycles
        /\ LET c == cycles'[Len(cycles')]
           IN  /\ Len(c) >= MinCycleLen
               /\ c[1] = start
               /\ \A k \in 2..(Len(c) - 1) : c[k] # start
               /\ \/ ~WalkIsStuck /\ c = Append(path, start)
                  \/ WalkIsStuck /\ c = path /\ ~Closed(c)

\* C14, amended: every sequence populate(Cycle) keeps has at least 3 nodes,
\* starts on the walk's start node and does not pass through it; it is
\* closed when the walk ended by returning to the start node, and is the
\* unclosed walk when the walk ended Stuck.
C14_Amended == [][C14_Step]_vars

\* populate(Cycle) has kept a closed sequence and an unclosed one
C14_Witness ==
    /\ pc = "starts" /\ typ = "Cycle"
    /\ \E i, j \in 1..Len(cycles) : Closed(cycles[i]) /\ ~Closed(cycles[j])

\* the edges a step consumes
Consumed == UnusedEdges(graph) \cap UsedEdges(graph')

\* what C15 says of a step that consumes an edge
C15_Step ==
    \A e \in Consumed :
        /\ pc = "walk" /\ e[1] = current
        /\ IF typ = "Cycle" /\ e[2] = start
           THEN \* ReturnedToStart: the walk is over, its sequence handed to populate
                /\ pc' = "starts" /\ path' = <<>>
                /\ cycles' = IF Len(path) + 1 >= MinCycleLen
                              THEN Append(cycles, Append(path, start)) ELSE cycles
           ELSE \* the walk goes on from the node it appended
                /\ pc' = "walk" /\ start' = start
                /\ path' = Append(path, e[2]) /\ current' = e[2]
                /\ cycles' = cycles

\* C15: a Cycle walk stops at the first step that appends a node with the
\* start node's key, whatever has become of the start node's counters since
\* the walk began, and at no other step; a Path walk is not stopped by
\* coming back to its start node.
C15_ClosureByKey == [][C15_Step]_vars

\* populate(Cycle) has kept a cycle of three steps; the counters of its start
\* node are no longer those it was built with
C15_Witness ==
    /\ pc = "starts" /\ typ = "Cycle"
    /\ \E i \in 1..Len(cycles) :
          /\ Len(cycles[i]) = 4 /\ Closed(cycles[i])
          /\ nodes[cycles[i][1]] # Assembler_new(reads).nodes[cycles[i][1]]

\* a Path walk has come back to its start node and gone on
C15_PathRevisits ==
    /\ pc = "walk" /\ typ = "Path"
    /\ \E k \in 2..(Len(path) - 1) : path[k] = start

\* the graph specification with the loop of find_path_or_cycle always run on
SpecWalkFair == Spec /\ WF_vars(WalkStep \/ WalkStuck)

\* what C17 says of one turn of the loop of a walk
C17_Step ==
    pc = "walk" =>
        \/ \* the turn that finds no bucket: the walk returns path
           /\ Consumed = {}
           /\ pc' = "starts"
           /\ Len(path) <= walk_u + 1
        \/ \* a step: one unused edge is consumed, one node appended, and the
           \* steps taken, this one counted, are at most U
           /\ Cardinality(Consumed) = 1
           /\ UsedEdges(graph') = UsedEdges(graph) \cup Consumed
           /\ Len(path) <= walk_u
           /\ \/ pc' = "walk" /\ Len(path') = Len(path) + 1
              \/ pc' = "starts"

\* C17: a walk begun in a graph with U unused edges consumes exactly one
\* unused edge at every step, takes at most U steps, returns at most U + 1
\* nodes, and ends: no behaviour stays inside a walk for ever.
C17_WalkBounded == [][C17_Step]_vars /\ []<>(pc # "walk")

\* a walk has consumed every edge of a graph of four edges
C17_Witness ==
    /\ pc = "walk"
    /\ walk_u = 4
    /\ Len(path) = 5
    /\ UnusedEdges(graph) = {}

(***************************************************************************)
(* The codec specification: one string of KLen symbols is encoded by       *)
(* vec2idx and the key decoded by idx2vec.  The inputs are the strings     *)
(* made of one background symbol with CodecWindow consecutive positions,   *)
(* anywhere in the string, holding any symbols.                            *)
(***************************************************************************)
CodecInputs ==
    {[i \in 1..KLen |-> IF o < i /\ i <= o + CodecWindow THEN w[i - o] ELSE b] :
        b \in Symbols, o \in 0..(KLen - CodecWindow), w \in [1..CodecWindow -> Symbols]}

InitCodec ==
    /\ pc = "encode"
    /\ cin \in CodecInputs
    /\ ckey = 0 /\ cout = <<>>
    /\ contigs = <<>>
    /\ GraphIdle /\ CondIdle /\ StepIdle

\* vec2idx(&s, NodeType::Prefix)
Encode ==
    /\ pc = "encode"
    /\ ckey' = vec2idx(cin, "Prefix")
    /\ pc' = "decode"
    /\ UNCHANGED <<cin, cout, contigs, graphVars, condVars, stepVars>>

\* idx2vec(key, 15)
Decode ==
    /\ pc = "decode"
    /\ cout' = idx2vec(ckey, KLen)
    /\ pc' = "decoded"
    /\ UNCHANGED <<cin, ckey, contigs, graphVars, condVars, stepVars>>

NextCodec == Encode \/ Decode

SpecCodec == InitCodec /\ [][NextCodec]_vars

\* the value of a symbol in the claim's encoding: A=0, C=1, G=2, T=3
Digit(c) == IF c = 65 THEN 0 ELSE IF c = 67 THEN 1 ELSE IF c = 71 THEN 2 ELSE 3

\* C8: decoding the prefix encoding of a string of KLen symbols gives the
\* string back, and the key is the base-4 little-endian number whose digit
\* at position i (from 0) is the value of the string's symbol at position i.
C8_RoundTrip ==
    /\ pc \in {"decode", "decoded"} =>
          \A i \in 0..(KLen - 1) : (ckey \div (4 ^ i)) % 4 = Digit(cin[i + 1])
    /\ pc = "decoded" => cout = cin

\* a decoded string whose last symbol differs from its first and which is not
\* all one symbol before the last
C8_Witness ==
    /\ pc = "decoded"
    /\ cin[1] # cin[KLen]
    /\ cin[KLen - 1] # cin[KLen]
    /\ ckey > 4 ^ (KLen - 1)

(***************************************************************************)
(* Condensation engine (sbh_assembler.rs).                                 *)
(***************************************************************************)
\* the mutant: only the start of contig is compared
IsPrefixOnly(contig, sub_contig) ==
    /\ Len(contig) >= Len(sub_contig)
    /\ SubSeq(contig, 1, Len(sub_contig)) = sub_contig

\* is_contig_contains: some pos with pos + sub.len() <= contig.len() and
\* contig[pos..pos + sub.len()] == sub
is_contig_contains(contig, sub_contig) ==
    /\ Len(contig) >= Len(sub_contig)
    /\ \E pos \in 0..(Len(contig) - Len(sub_contig)) :
          SubSeq(contig, pos + 1, pos + Len(sub_contig)) = sub_contig

\* sort_unstable_by_key(|c| Reverse(c.len())): the orders it can leave, longest
\* first, contigs of one length in any order
RECURSIVE SortedFrom(_, _)
SortedFrom(cs, left) ==
    IF left = {} THEN {<<>>}
    ELSE LET longest == {i \in left : \A j \in left : Len(cs[i]) >= Len(cs[j])}
         IN  UNION {{<<cs[i]>> \o rest : rest \in SortedFrom(cs, left \ {i})} : i \in longest}

SortedByLen(cs) == SortedFrom(cs, 1..Len(cs))

\* the mutant: the worker stops at its first mark
RECURSIVE MarkInnerOneMark(_, _, _, _)
MarkInnerOneMark(cs, i, j, tr) ==
    IF j > Len(cs) THEN tr
    ELSE IF tr[j] THEN MarkInnerOneMark(cs, i, j + 1, tr)
    ELSE IF Len(cs[i]) > Len(cs[j]) /\ is_contig_contains(cs[i], cs[j])
         THEN [tr EXCEPT ![j] = TRUE]
    ELSE IF is_contig_contains(cs[j], cs[i])
         THEN [tr EXCEPT ![i] = TRUE]
    ELSE MarkInnerOneMark(cs, i, j + 1, tr)

\* for j in (i + 1)..len: skip a marked j; mark j when contig i is longer and
\* contains it; else mark i and break when contig j contains contig i
RECURSIVE MarkInner(_, _, _, _)
MarkInner(cs, i, j, tr) ==
    IF j > Len(cs) THEN tr
    ELSE IF tr[j] THEN MarkInner(cs, i, j + 1, tr)
    ELSE IF Len(cs[i]) > Len(cs[j]) /\ is_contig_contains(cs[i], cs[j])
         THEN MarkInner(cs, i, j + 1, [tr EXCEPT ![j] = TRUE])
    ELSE IF is_contig_contains(cs[j], cs[i])
         THEN [tr EXCEPT ![i] = TRUE]
    ELSE MarkInner(cs, i, j + 1, tr)

\* the for_each over the contigs, taken in index order (the order of a pool
\* of one worker): a contig already marked returns at once
RECURSIVE MarkOuter(_, _, _)
MarkOuter(cs, i, tr) ==
    IF i > Len(cs) THEN tr
    ELSE MarkOuter(cs, i + 1, IF tr[i] THEN tr ELSE MarkInner(cs, i, i + 1, tr))

\* the positions of a sequence that pass a test, in order
RECURSIVE Unmarked(_, _, _)
Unmarked(cs, tr, i) ==
    IF i > Len(cs) THEN <<>>
    ELSE (IF tr[i] THEN <<>> ELSE <<cs[i]>>) \o Unmarked(cs, tr, i + 1)

\* remove_contained_contigs on a sorted collection: the contigs kept and the
\* number of marks
RemoveSorted(cs) ==
    LET tr == MarkOuter(cs, 1, [i \in 1..Len(cs) |-> FALSE])
    IN  [contigs |-> Unmarked(cs, tr, 1),
         count   |-> Cardinality({i \in 1..Len(cs) : tr[i]})]

\* remove_contained_contigs: what it can leave and return
remove_contained_contigs(cs) == {RemoveSorted(sorted) : sorted \in SortedByLen(cs)}

NoneOverlap == [some |-> FALSE, overlap_len |-> 0, contig |-> <<>>]

\* c.starts_with(s)
starts_with(c, s) == Len(s) <= Len(c) /\ SubSeq(c, 1, Len(s)) = s

\* the mutant: the overlaps are tried from the longest down
RECURSIVE MergeScanLongest(_, _, _, _)
MergeScanLongest(c1, c2, min_overlap_len, i) ==
    IF i < 0 THEN NoneOverlap
    ELSE LET overlap_len == i + 1
         IN  IF /\ starts_with(c1, SubSeq(c2, Len(c2) - i, Len(c2)))
                /\ overlap_len >= min_overlap_len
             THEN [some |-> TRUE, overlap_len |-> overlap_len,
                   contig |-> SubSeq(c2, 1, Len(c2) - overlap_len) \o c1]
             ELSE IF /\ starts_with(c2, SubSeq(c1, Len(c1) - i, Len(c1)))
                     /\ overlap_len >= min_overlap_len
             THEN [some |-> TRUE, overlap_len |-> overlap_len,
                   contig |-> SubSeq(c1, 1, Len(c1) - overlap_len) \o c2]
             ELSE MergeScanLongest(c1, c2, min_overlap_len, i - 1)

MergeIfOverlapLongest(c1, c2, min_overlap_len) ==
    MergeScanLongest(c1, c2, min_overlap_len, Min(Len(c1), Len(c2)) - 1)

\* the mutant: the joined contig leaves the overlap out on both sides
RECURSIVE MergeScanTrimmed(_, _, _, _)
MergeScanTrimmed(c1, c2, min_overlap_len, i) ==
    IF i >= Min(Len(c1), Len(c2)) THEN NoneOverlap
    ELSE LET overlap_len == i + 1
         IN  IF /\ starts_with(c1, SubSeq(c2, Len(c2) - i, Len(c2)))
                /\ overlap_len >= min_overlap_len
             THEN [some |-> TRUE, overlap_len |-> overlap_len,
                   contig |-> SubSeq(c2, 1, Len(c2) - overlap_len)
                              \o SubSeq(c1, overlap_len + 1, Len(c1))]
             ELSE IF /\ starts_with(c2, SubSeq(c1, Len(c1) - i, Len(c1)))
                     /\ overlap_len >= min_overlap_len
             THEN [some |-> TRUE, overlap_len |-> overlap_len,
                   contig |-> SubSeq(c1, 1, Len(c1) - overlap_len)
                              \o SubSeq(c2, overlap_len + 1, Len(c2))]
             ELSE MergeScanTrimmed(c1, c2, min_overlap_len, i + 1)

MergeIfOverlapTrimmed(c1, c2, min_overlap_len) == MergeScanTrimmed(c1, c2, min_overlap_len, 0)

\* for i in 0..overlap_range: first the end of c2 against the start of c1, then
\* the end of c1 against the start of c2, each kept when i + 1 >= min_overlap_len
RECURSIVE MergeScan(_, _, _, _)
MergeScan(c1, c2, min_overlap_len, i) ==
    IF i >= Min(Len(c1), Len(c2)) THEN NoneOverlap
    ELSE LET overlap_len == i + 1
         IN  IF /\ starts_with(c1, SubSeq(c2, Len(c2) - i, Len(c2)))
                /\ overlap_len >= min_overlap_len
             THEN [some |-> TRUE, overlap_len |-> overlap_len,
                   contig |-> SubSeq(c2, 1, Len(c2) - overlap_len) \o c1]
             ELSE IF /\ starts_with(c2, SubSeq(c1, Len(c1) - i, Len(c1)))
                     /\ overlap_len >= min_overlap_len
             THEN [some |-> TRUE, overlap_len |-> overlap_len,
                   contig |-> SubSeq(c1, 1, Len(c1) - overlap_len) \o c2]
             ELSE MergeScan(c1, c2, min_overlap_len, i + 1)

merge_if_overlap(c1, c2, min_overlap_len) == MergeScan(c1, c2, min_overlap_len, 0)

\* Vec::swap_remove(k), k from 0: the last element takes the place of element k
swap_remove(v, k) == [i \in 1..(Len(v) - 1) |-> IF i = k + 1 THEN v[Len(v)] ELSE v[i]]

\* the while loop of merge_contigs from cursor i (from 0): the first j > i whose
\* test gave Some is applied, the cursor is set to 0 and, the for loop left,
\* i += 1 runs; with no such j, i += 1
RECURSIVE MergeLoop(_, _, _, _)
MergeLoop(cs, i, count, min) ==
    IF i >= Len(cs) THEN [contigs |-> cs, count |-> count]
    ELSE LET hits == {j \in (i + 1)..(Len(cs) - 1) :
                         merge_if_overlap(cs[i + 1], cs[j + 1], min).some}
         IN  IF hits = {} THEN MergeLoop(cs, i + 1, count, min)
             ELSE LET j   == CHOOSE h \in hits : \A h2 \in hits : h <= h2
                      new == merge_if_overlap(cs[i + 1], cs[j + 1], min).contig
                      cs1 == Append(swap_remove(swap_remove(cs, j), i), new)
                  IN  MergeLoop(cs1, 0 + 1, count + 2, min)

\* merge_contigs(min_overlap): what it can leave and return
merge_contigs(cs, min) == {MergeLoop(sorted, 0, 0, min) : sorted \in SortedByLen(cs)}

(***************************************************************************)
(* Inputs of the condensation specifications: collections of at most       *)
(* MaxContigs contigs, each of 1 to MaxLen symbols over {A, C}.  Both      *)
(* operations sort first, so one order per multiset of contigs is drawn;   *)
(* both compare symbols for equality only, so of two collections that are  *)
(* one another with A and C exchanged one is drawn: the one whose least    *)
(* contig (a shortest one) begins with A.                                  *)
(***************************************************************************)
\* the symbols after the leading 1 of n written in base 2, 0 as A and 1 as C
RECURSIVE BitsOf(_)
BitsOf(n) == IF n <= 1 THEN <<>> ELSE Append(BitsOf(n \div 2), IF n % 2 = 0 THEN 65 ELSE 67)

\* contig number k, from 1: A, C, AA, AC, CA, CC, AAA, ...
StringAt(k) == BitsOf(k + 1)

NumStrings == 2 ^ (MaxLen + 1) - 2

\* the nondecreasing sequences of n contig numbers, none above top
RECURSIVE SortedSeqs(_, _)
SortedSeqs(n, top) ==
    IF n = 0 THEN {<<>>}
    ELSE UNION {{Append(s, r) : s \in SortedSeqs(n - 1, r)} : r \in 1..top}

ContigInputs ==
    {[i \in 1..Len(s) |-> StringAt(s[i])] :
        s \in {t \in UNION {SortedSeqs(n, NumStrings) : n \in 0..MaxContigs} :
                  t = <<>> \/ StringAt(t[1])[1] = 65}}

(***************************************************************************)
(* The driver specification: the condensation loop of main.                *)
(***************************************************************************)
InitDriver ==
    /\ pc = "remove"
    /\ contigs \in ContigInputs
    /\ min_overlap \in 1..MaxOverlap
    /\ prev = UsizeMax
    /\ rounds = 0
    /\ n0 = Len(contigs)
    /\ removed = 0 /\ merged = 0 /\ before = <<>> /\ calls = <<>>
    /\ GraphIdle /\ CodecIdle /\ StepIdle

\* let removed = ass.remove_contained_contigs()
DriverRemove ==
    /\ pc = "remove"
    /\ \E r \in remove_contained_contigs(contigs) :
          /\ contigs' = r.contigs
          /\ removed' = r.count
    /\ pc' = "merge"
    /\ UNCHANGED <<min_overlap, prev, rounds, n0, merged, before, calls>>
    /\ UNCHANGED <<graphVars, codecVars, stepVars>>

\* let merged = ass.merge_contigs(min_overlap)
DriverMerge ==
    /\ pc = "merge"
    /\ \E r \in merge_contigs(contigs, min_overlap) :
          /\ contigs' = r.contigs
          /\ merged' = r.count
    /\ pc' = "check"
    /\ UNCHANGED <<min_overlap, prev, rounds, n0, removed, before, calls>>
    /\ UNCHANGED <<graphVars, codecVars, stepVars>>

\* the mutant: prev is never updated
DriverCheckNoPrev ==
    /\ pc = "check"
    /\ rounds' = rounds + 1
    /\ pc' = IF prev = Len(contigs) THEN "done" ELSE "remove"
    /\ UNCHANGED <<contigs, min_overlap, prev, n0, removed, merged, before, calls>>
    /\ UNCHANGED <<graphVars, codecVars, stepVars>>

\* if prev == ass.contigs.len() { break; }  prev = ass.contigs.len();
DriverCheck ==
    /\ pc = "check"
    /\ rounds' = rounds + 1
    /\ IF prev = Len(contigs)
       THEN pc' = "done" /\ prev' = prev
       ELSE pc' = "remove" /\ prev' = Len(contigs)
    /\ UNCHANGED <<contigs, min_overlap, n0, removed, merged, before, calls>>
    /\ UNCHANGED <<graphVars, codecVars, stepVars>>

NextDriver == DriverRemove \/ DriverMerge \/ DriverCheck

SpecDriver == InitDriver /\ [][NextDriver]_vars

(***************************************************************************)
(* The call specifications: one collection, and either                     *)
(*   SpecRemove  remove_contained_contigs called on it again and again, or *)
(*   SpecMerge   merge_contigs called on it once, with any min_overlap.    *)
(* calls holds the last two calls, before the collection as the last call  *)
(* found it.                                                               *)
(***************************************************************************)
InitCalls ==
    /\ pc = "calls"
    /\ contigs \in ContigInputs
    /\ min_overlap = 0 /\ prev = 0 /\ rounds = 0
    /\ n0 = Len(contigs)
    /\ removed = 0 /\ merged = 0 /\ before = <<>> /\ calls = <<>>
    /\ GraphIdle /\ CodecIdle /\ StepIdle

LastTwo(cs, c) == IF cs = <<>> THEN <<c>> ELSE <<cs[Len(cs)], c>>

\* ass.remove_contained_contigs()
CallRemove ==
    /\ pc = "calls"
    /\ \E r \in remove_contained_contigs(contigs) :
          /\ contigs' = r.contigs
          /\ removed' = r.count
    /\ before' = contigs
    /\ calls' = LastTwo(calls, "remove")
    /\ UNCHANGED <<pc, min_overlap, prev, rounds, n0, merged>>
    /\ UNCHANGED <<graphVars, codecVars, stepVars>>

\* ass.merge_contigs(m)
CallMerge(m) ==
    /\ pc = "calls"
    /\ calls = <<>>
    /\ \E r \in merge_contigs(contigs, m) :
          /\ contigs' = r.contigs
          /\ merged' = r.count
    /\ min_overlap' = m
    /\ before' = contigs
    /\ calls' = LastTwo(calls, "merge")
    /\ UNCHANGED <<pc, prev, rounds, n0, removed>>
    /\ UNCHANGED <<graphVars, codecVars, stepVars>>

NextRemove == CallRemove

SpecRemove == InitCalls /\ [][NextRemove]_vars

NextMerge == \E m \in 1..MaxOverlap : CallMerge(m)

SpecMerge == InitCalls /\ [][NextMerge]_vars

(***************************************************************************)
(* The condense specification: one collection, kept in before, and the two *)
(* condensation operations called on it in any order and number, with any  *)
(* min_overlap.                                                            *)
(***************************************************************************)
InitCondense ==
    /\ pc = "condense"
    /\ contigs \in ContigInputs
    /\ before = contigs
    /\ min_overlap = 0 /\ prev = 0 /\ rounds = 0
    /\ n0 = Len(contigs)
    /\ removed = 0 /\ merged = 0 /\ calls = <<>>
    /\ GraphIdle /\ CodecIdle /\ StepIdle

\* ass.remove_contained_contigs()
AnyRemove ==
    /\ pc = "condense"
    /\ \E r \in remove_contained_contigs(contigs) :
          /\ contigs' = r.contigs
          /\ removed' = r.count
    /\ UNCHANGED <<pc, min_overlap, prev, rounds, n0, merged, before, calls>>
    /\ UNCHANGED <<graphVars, codecVars, stepVars>>

\* ass.merge_contigs(m)
AnyMerge(m) ==
    /\ pc = "condense"
    /\ \E r \in merge_contigs(contigs, m) :
          /\ contigs' = r.contigs
          /\ merged' = r.count
    /\ min_overlap' = m
    /\ UNCHANGED <<pc, prev, rounds, n0, removed, before, calls>>
    /\ UNCHANGED <<graphVars, codecVars, stepVars>>

NextCondense == AnyRemove \/ \E m \in 1..MaxOverlap : AnyMerge(m)

SpecCondense == InitCondense /\ [][NextCondense]_vars

(***************************************************************************)
(* The merge-steps specification: one call of merge_contigs, statement by  *)
(* statement.  The overlap tests of one pass are the tasks of the parallel *)
(* map; each begins by taking its two contigs and ends by giving its       *)
(* result, in any order and interleaving; collect returns when all have    *)
(* ended.  Everything else runs on the calling thread.                     *)
(***************************************************************************)
InitMergeSteps ==
    /\ pc = "m_sort"
    /\ contigs \in ContigInputs
    /\ min_overlap \in 0..MaxOverlap
    /\ prev = 0 /\ rounds = 0
    /\ n0 = Len(contigs)
    /\ removed = 0 /\ merged = 0 /\ before = <<>> /\ calls = <<>>
    /\ GraphIdle /\ CodecIdle /\ StepIdle

\* let mut merged = 0; self.contigs.sort_unstable_by_key(..); let mut i = 0
MSort ==
    /\ pc = "m_sort"
    /\ contigs' \in SortedByLen(contigs)
    /\ before' = contigs
    /\ merged' = 0
    /\ cursor' = 0
    /\ pc' = "m_while"
    /\ UNCHANGED <<min_overlap, prev, rounds, n0, removed, calls>>
    /\ UNCHANGED <<overlaps, pending, running, applied, to_remove, tasks>>
    /\ UNCHANGED <<graphVars, codecVars>>

\* while i < self.contigs.len() { let j_range = i + 1..self.contigs.len(); the
\* parallel map is started }  or the loop is left and merged returned
MWhile ==
    /\ pc = "m_while"
    /\ IF cursor < Len(contigs)
       THEN /\ pc' = "m_detect"
            /\ pending' = (cursor + 1)..(Len(contigs) - 1)
       ELSE /\ pc' = "m_return"
            /\ pending' = {}
    /\ overlaps' = EmptyMap
    /\ running' = EmptyMap
    /\ UNCHANGED <<contigs, cursor, applied, to_remove, tasks>>
    /\ UNCHANGED <<condVars, graphVars, codecVars>>

\* a worker begins the closure for j: &self.contigs[i], &self.contigs[j]
MTestBegin(j) ==
    /\ pc = "m_detect"
    /\ j \in pending \ DOMAIN running
    /\ running' = running @@ (j :> <<contigs[cursor + 1], contigs[j + 1]>>)
    /\ UNCHANGED <<pc, contigs, cursor, overlaps, pending, applied, to_remove, tasks>>
    /\ UNCHANGED <<condVars, graphVars, codecVars>>

\* the closure for j returns Self::merge_if_overlap(.., .., min_overlap)
MTestEnd(j) ==
    /\ j \in DOMAIN running
    /\ overlaps' = overlaps @@
                       (j :> merge_if_overlap(running[j][1], running[j][2], min_overlap))
    /\ running' = [k \in DOMAIN running \ {j} |-> running[k]]
    /\ pending' = pending \ {j}
    /\ UNCHANGED <<pc, contigs, cursor, applied, to_remove, tasks>>
    /\ UNCHANGED <<condVars, graphVars, codecVars>>

\* the mutant: collect does not wait for the tests
MCollectNoJoin ==
    /\ pc = "m_detect"
    /\ pc' = "m_apply"
    /\ UNCHANGED <<contigs, cursor, overlaps, pending, running, applied, to_remove, tasks>>
    /\ UNCHANGED <<condVars, graphVars, codecVars>>

\* .collect::<Vec<_>>() returns: every closure of the map has returned
MCollect ==
    /\ pc = "m_detect"
    /\ pending = {}
    /\ pc' = "m_apply"
    /\ UNCHANGED <<contigs, cursor, overlaps, pending, running, applied, to_remove, tasks>>
    /\ UNCHANGED <<condVars, graphVars, codecVars>>

\* the mutant: the count goes up by one for a merge
MApplyCountOne ==
    /\ pc = "m_apply"
    /\ LET hits == {j \in DOMAIN overlaps : overlaps[j].some}
       IN  IF hits = {}
           THEN /\ applied' = FALSE
                /\ UNCHANGED <<contigs, cursor, merged>>
           ELSE LET j == CHOOSE h \in hits : \A h2 \in hits : h <= h2
                IN  /\ contigs' = Append(swap_remove(swap_remove(contigs, j), cursor),
                                         overlaps[j].contig)
                    /\ cursor' = 0
                    /\ merged' = merged + 1
                    /\ applied' = TRUE
    /\ overlaps' = EmptyMap
    /\ pc' = "m_incr"
    /\ UNCHANGED <<min_overlap, prev, rounds, n0, removed, before, calls>>
    /\ UNCHANGED <<pending, running, to_remove, tasks>>
    /\ UNCHANGED <<graphVars, codecVars>>

\* for (j, overlap) in j_range.zip(overlaps.into_iter()): at the first Some,
\* swap_remove(j); swap_remove(i); push(new_contig); i = 0; merged += 2; break
MApply ==
    /\ pc = "m_apply"
    /\ LET hits == {j \in DOMAIN overlaps : overlaps[j].some}
       IN  IF hits = {}
           THEN /\ applied' = FALSE
                /\ UNCHANGED <<contigs, cursor, merged>>
           ELSE LET j == CHOOSE h \in hits : \A h2 \in hits : h <= h2
                IN  /\ contigs' = Append(swap_remove(swap_remove(contigs, j), cursor),
                                         overlaps[j].contig)
                    /\ cursor' = 0
                    /\ merged' = merged + 2
                    /\ applied' = TRUE
    /\ overlaps' = EmptyMap
    /\ pc' = "m_incr"
    /\ UNCHANGED <<min_overlap, prev, rounds, n0, removed, before, calls>>
    /\ UNCHANGED <<pending, running, to_remove, tasks>>
    /\ UNCHANGED <<graphVars, codecVars>>

\* i += 1, after the for loop, however it was left
MIncr ==
    /\ pc = "m_incr"
    /\ cursor' = cursor + 1
    /\ pc' = "m_while"
    /\ UNCHANGED <<contigs, overlaps, pending, running, applied, to_remove, tasks>>
    /\ UNCHANGED <<condVars, graphVars, codecVars>>

NextMergeSteps ==
    \/ MSort
    \/ MWhile
    \/ \E j \in 1..(MaxContigs - 1) : MTestBegin(j)
    \/ \E j \in 1..(MaxContigs - 1) : MTestEnd(j)
    \/ MCollect
    \/ MApply
    \/ MIncr

SpecMergeSteps == InitMergeSteps /\ [][NextMergeSteps]_vars

\* the parallel map and its collect as the one statement they are on the
\* calling thread: overlaps holds the result for every j of j_range
MDetect ==
    /\ pc = "m_detect"
    /\ running = EmptyMap /\ overlaps = EmptyMap
    /\ overlaps' = [j \in pending |->
                       merge_if_overlap(contigs[cursor + 1], contigs[j + 1], min_overlap)]
    /\ pending' = {}
    /\ pc' = "m_apply"
    /\ UNCHANGED <<contigs, cursor, running, applied, to_remove, tasks>>
    /\ UNCHANGED <<condVars, graphVars, codecVars>>

\* merge_contigs as the calling thread runs it, statement after statement
NextMergeLoop == MSort \/ MWhile \/ MDetect \/ MApply \/ MIncr

\* the calling thread always goes on to its next statement
SpecMergeLoopFair ==
    InitMergeSteps /\ [][NextMergeLoop]_vars /\ WF_vars(NextMergeLoop)

(***************************************************************************)
(* The mark-steps specification: one call of remove_contained_contigs,     *)
(* the closure of the parallel for_each run once for every index, the      *)
(* closures interleaved in any way.  A step of a closure is one atomic     *)
(* load or store of a flag; the comparisons read the contigs only, which   *)
(* nothing writes during the pass.  Indices are from 1 here.               *)
(***************************************************************************)
InitMarkSteps ==
    /\ pc = "k_sort"
    /\ contigs \in ContigInputs
    /\ min_overlap = 0 /\ prev = 0 /\ rounds = 0
    /\ n0 = Len(contigs)
    /\ removed = 0 /\ merged = 0 /\ before = <<>> /\ calls = <<>>
    /\ GraphIdle /\ CodecIdle /\ StepIdle

\* self.contigs.sort_unstable_by_key(..); let to_remove = .. AtomicBool::new(false)
KSort ==
    /\ pc = "k_sort"
    /\ contigs' \in SortedByLen(contigs)
    /\ before' = contigs
    /\ to_remove' = [i \in 1..Len(contigs) |-> FALSE]
    /\ tasks' = [i \in 1..Len(contigs) |-> [at |-> "start", j |-> 0]]
    /\ pc' = "k_mark"
    /\ UNCHANGED <<min_overlap, prev, rounds, n0, removed, merged, calls>>
    /\ UNCHANGED <<cursor, overlaps, pending, running, applied>>
    /\ UNCHANGED <<graphVars, codecVars>>

\* the for loop over j goes to the index after j, or is over
AfterJ(j) ==
    IF j + 1 > Len(contigs) THEN [at |-> "done", j |-> 0] ELSE [at |-> "load", j |-> j + 1]

TaskDone == [at |-> "done", j |-> 0]

\* if to_remove[i].load(SeqCst) { return }
KStart(i) ==
    /\ pc = "k_mark"
    /\ i \in DOMAIN tasks
    /\ tasks[i].at = "start"
    /\ tasks' = [tasks EXCEPT ![i] = IF to_remove[i] THEN TaskDone ELSE AfterJ(i)]
    /\ UNCHANGED <<pc, contigs, to_remove, cursor, overlaps, pending, running, applied>>
    /\ UNCHANGED <<condVars, graphVars, codecVars>>

\* if to_remove[j].load(SeqCst) { continue; }
KLoad(i) ==
    /\ pc = "k_mark"
    /\ i \in DOMAIN tasks
    /\ tasks[i].at = "load"
    /\ tasks' = [tasks EXCEPT ![i] = IF to_remove[tasks[i].j] THEN AfterJ(tasks[i].j)
                                     ELSE [at |-> "test", j |-> tasks[i].j]]
    /\ UNCHANGED <<pc, contigs, to_remove, cursor, overlaps, pending, running, applied>>
    /\ UNCHANGED <<condVars, graphVars, codecVars>>

\* the mutant: a mark flips the flag instead of setting it
KTestToggle(i) ==
    /\ pc = "k_mark"
    /\ i \in DOMAIN tasks
    /\ tasks[i].at = "test"
    /\ LET j == tasks[i].j
       IN  IF Len(contigs[i]) > Len(contigs[j]) /\ is_contig_contains(contigs[i], contigs[j])
           THEN /\ to_remove' = [to_remove EXCEPT ![j] = ~to_remove[j]]
                /\ tasks' = [tasks EXCEPT ![i] = AfterJ(j)]
           ELSE IF is_contig_contains(contigs[j], contigs[i])
           THEN /\ to_remove' = [to_remove EXCEPT ![i] = ~to_remove[i]]
                /\ tasks' = [tasks EXCEPT ![i] = TaskDone]
           ELSE /\ to_remove' = to_remove
                /\ tasks' = [tasks EXCEPT ![i] = AfterJ(j)]
    /\ UNCHANGED <<pc, contigs, cursor, overlaps, pending, running, applied>>
    /\ UNCHANGED <<condVars, graphVars, codecVars>>

\* if contig_i.len() > contigs[j].len() && is_contig_contains(contig_i, contigs[j])
\*     { to_remove[j].store(true, SeqCst); }
\* else if is_contig_contains(contigs[j], contig_i)
\*     { to_remove[i].store(true, SeqCst); break; }
KTest(i) ==
    /\ pc = "k_mark"
    /\ i \in DOMAIN tasks
    /\ tasks[i].at = "test"
    /\ LET j == tasks[i].j
       IN  IF Len(contigs[i]) > Len(contigs[j]) /\ is_contig_contains(contigs[i], contigs[j])
           THEN /\ to_remove' = [to_remove EXCEPT ![j] = TRUE]
                /\ tasks' = [tasks EXCEPT ![i] = AfterJ(j)]
           ELSE IF is_contig_contains(contigs[j], contigs[i])
           THEN /\ to_remove' = [to_remove EXCEPT ![i] = TRUE]
                /\ tasks' = [tasks EXCEPT ![i] = TaskDone]
           ELSE /\ to_remove' = to_remove
                /\ tasks' = [tasks EXCEPT ![i] = AfterJ(j)]
    /\ UNCHANGED <<pc, contigs, cursor, overlaps, pending, running, applied>>
    /\ UNCHANGED <<condVars, graphVars, codecVars>>

\* for_each has returned: the filter_map over the flags, and the count
KFilter ==
    /\ pc = "k_mark"
    /\ \A i \in DOMAIN tasks : tasks[i].at = "done"
    /\ contigs' = Unmarked(contigs, to_remove, 1)
    /\ removed' = Cardinality({i \in DOMAIN to_remove : to_remove[i]})
    /\ pc' = "k_return"
    /\ UNCHANGED <<min_overlap, prev, rounds, n0, merged, before, calls>>
    /\ UNCHANGED stepVars
    /\ UNCHANGED <<graphVars, codecVars>>

NextMarkSteps ==
    \/ KSort
    \/ \E i \in 1..MaxContigs : KStart(i) \/ KLoad(i) \/ KTest(i)
    \/ KFilter

SpecMarkSteps == InitMarkSteps /\ [][NextMarkSteps]_vars

(***************************************************************************)
(* The main specification: the graph specification followed by the         *)
(* condensation loop of main on the contigs it built.                      *)
(***************************************************************************)
\* let mut prev = usize::MAX; the loop calls merge_contigs(15)
BeginCondense ==
    /\ pc = "built"
    /\ pc' = "remove"
    /\ prev' = UsizeMax
    /\ min_overlap' = MainMinOverlap
    /\ n0' = Len(contigs)
    /\ UNCHANGED <<contigs, rounds, removed, merged, before, calls>>
    /\ UNCHANGED <<graphVars, codecVars, stepVars>>

NextMain == Next \/ BeginCondense \/ NextDriver

SpecMain == Init /\ [][NextMain]_vars

\* the run is past paths_cycles_to_contigs
Condensing == pc \in {"built", "remove", "merge", "check", "done"}

\* C11: when populate kept no path and no cycle (no reads, no start node, or
\* only walks too short to keep), contig building leaves the collection
\* empty, both condensation operations return 0 and leave it empty, no step
\* fails (a step is always enabled until the loop has stopped), and the loop
\* stops after its second round.
C11_EmptyIsNoError ==
    /\ (reads = <<>> /\ Built) => (paths = <<>> /\ cycles = <<>>)
    /\ (Condensing /\ paths = <<>> /\ cycles = <<>>) =>
          /\ contigs = <<>>
          /\ removed = 0 /\ merged = 0
          /\ pc # "done" => ENABLED NextMain
          /\ rounds <= 2
          /\ pc = "done" => rounds = 2

\* the loop has stopped; the graph had edges and walks consumed some, yet
\* nothing was kept
C11_Witness ==
    /\ pc = "done"
    /\ UsedEdges(graph) # {}
    /\ paths = <<>> /\ cycles = <<>>
    /\ contigs = <<>>

(***************************************************************************)
(* Properties of the condensation specifications.  Containment and overlap *)
(* are stated here on their own, not through the operators of the model.   *)
(***************************************************************************)
\* x is a contiguous substring of y
Substring(x, y) ==
    \E a \in 0..(Len(y) - Len(x)) : \A i \in 1..Len(x) : y[a + i] = x[i]

\* the last k symbols of x are the first k symbols of y
Overlap(x, y, k) ==
    /\ k <= Len(x) /\ k <= Len(y)
    /\ \A i \in 1..k : x[Len(x) - k + i] = y[i]

\* the overlap lengths from m on at which x and y match, one way or the other
Overlaps(x, y, m) ==
    {k \in m..Min(Len(x), Len(y)) : Overlap(x, y, k) \/ Overlap(y, x, k)}

NoContainment(cs) ==
    \A i, j \in 1..Len(cs) : i # j => ~Substring(cs[i], cs[j])

NoOverlap(cs, m) ==
    \A i, j \in 1..Len(cs) : i # j => Overlaps(cs[i], cs[j], m) = {}

\* how many times x occurs in cs
Count(cs, x) == Cardinality({i \in 1..Len(cs) : cs[i] = x})

SameContigs(cs, ds) ==
    /\ Len(cs) = Len(ds)
    /\ \A i \in 1..Len(cs) : Count(cs, cs[i]) = Count(ds, cs[i])

\* what C13 says of one step of merge_contigs
C13_Step ==
    \* the pass that follows an applied merge is a pass for cursor 0 (looked
    \* at where that pass has a pair to test)
    /\ (pc = "m_while" /\ applied /\ Len(contigs) >= 2) =>
           (pc' = "m_detect" /\ cursor' = 0 /\ pending' = 1..(Len(contigs) - 1))
    \* with no merge applied the cursor goes up by one
    /\ (pc = "m_incr" /\ ~applied) => cursor' = cursor + 1

\* C13: after a merge is applied the cursor is 0 again, so that the next
\* detection pass tests the contig at index 0 against every later contig;
\* after a pass in which no pair qualified the cursor is one higher.
C13_CursorReset == [][C13_Step]_vars

\* what C16 says of one step of the marking pass
C16_Step ==
    \* a flag that is set stays set
    /\ (pc = "k_mark" /\ pc' = "k_mark") =>
           \A i \in DOMAIN to_remove : to_remove[i] => to_remove'[i]
    \* when the pass is over the flags are those of the pass run for one index
    \* after the other, and so are the contigs kept and the count returned
    /\ (pc = "k_mark" /\ pc' = "k_return") =>
           /\ to_remove = MarkOuter(contigs, 1, [i \in 1..Len(contigs) |-> FALSE])
           /\ contigs' = RemoveSorted(contigs).contigs
           /\ removed' = RemoveSorted(contigs).count

\* C16: a removal flag only goes from false to true, and whatever the
\* interleaving of the closures of the marking pass, the flags set at its end
\* are those a sequential pass sets on the same sorted collection: the same
\* contigs survive and the same count is returned.
C16_RacesBenign == [][C16_Step]_vars

\* a closure is about to compare its contig with a contig it found unmarked
\* and which another closure has marked since, while a third contig is
\* already marked
C16_Witness ==
    /\ pc = "k_mark"
    /\ \E i \in DOMAIN tasks :
          /\ tasks[i].at = "test"
          /\ to_remove[tasks[i].j]
          /\ \E k \in DOMAIN to_remove : k # tasks[i].j /\ to_remove[k]

\* ds is cs with two of its contigs taken out and one contig put at the end
TwoOutOneIn(cs, ds) ==
    /\ Len(ds) = Len(cs) - 1
    /\ \E a, b \in 1..Len(cs) :
          /\ a < b
          /\ \A k \in 1..Len(cs) :
                Count(ds, cs[k]) = Count(cs, cs[k])
                                   - (IF cs[k] = cs[a] THEN 1 ELSE 0)
                                   - (IF cs[k] = cs[b] THEN 1 ELSE 0)
                                   + (IF cs[k] = ds[Len(ds)] THEN 1 ELSE 0)
          /\ Count(ds, ds[Len(ds)]) = Count(cs, ds[Len(ds)])
                                      - (IF ds[Len(ds)] = cs[a] THEN 1 ELSE 0)
                                      - (IF ds[Len(ds)] = cs[b] THEN 1 ELSE 0)
                                      + 1

\* what C18 says of one step of merge_contigs after the sort
C18_Step ==
    pc # "m_sort" =>
        \/ contigs' = contigs /\ merged' = merged
        \/ pc = "m_apply" /\ TwoOutOneIn(contigs, contigs') /\ merged' = merged + 2

\* C18: merge_contigs ends, for every collection and min_overlap; a step
\* that changes the collection takes two contigs out and appends one, and
\* adds 2 to the count, so that the value returned is twice the number of
\* contigs the call has taken off the collection.
C18_MergeTerminates ==
    /\ [][C18_Step]_vars
    /\ [](pc = "m_return" => merged = 2 * (n0 - Len(contigs)))
    /\ <>(pc = "m_return")

\* the call has returned 2, having merged two of three contigs
C18_Witness == pc = "m_return" /\ n0 = 3 /\ merged = 2 /\ Len(contigs) = 2

\* an overlap test of the current pass has not begun, or has not ended
TestsOpen == pending # {} \/ running # EmptyMap

\* what C19 says of one step of merge_contigs
C19_Step ==
    \* no step changes the collection while a test is open, and the two
    \* contigs a test in progress took are still what the collection holds
    /\ TestsOpen => contigs' = contigs
    /\ \A j \in DOMAIN running :
          /\ pc = "m_detect"
          /\ running[j] = <<contigs[cursor + 1], contigs[j + 1]>>
    \* the step that changes it is the apply step of the calling thread, taken
    \* with the result of every test of the pass collected
    /\ (pc # "m_sort" /\ contigs' # contigs) =>
          /\ pc = "m_apply"
          /\ ~TestsOpen
          /\ DOMAIN overlaps = (cursor + 1)..(Len(contigs) - 1)
    \* and no test begins before the apply step is over
    /\ pc = "m_apply" => (running' = EmptyMap /\ pending' = {})

\* C19: in merge_contigs the overlap tests of a pass read a collection that
\* does not change, and they have all ended before the collection is changed
\* by the apply step, which runs with no test open.
C19_DetectThenApply == [][C19_Step]_vars

\* the tests of a pass over three contigs have ended, one with a pair to
\* merge: the apply step is next
C19_Witness ==
    /\ pc = "m_apply"
    /\ DOMAIN overlaps = {1, 2}
    /\ \E j \in DOMAIN overlaps : overlaps[j].some

\* two tests of one pass are in progress at once
C19_TwoInProgress == pc = "m_detect" /\ Cardinality(DOMAIN running) = 2

\* C20: after any sequence of remove_contained_contigs and merge_contigs
\* calls, every contig the collection held before the sequence is a
\* contiguous substring of a contig it holds now.
C20_NoContentLost ==
    pc = "condense" =>
        \A i \in 1..Len(before) : \E j \in 1..Len(contigs) : Substring(before[i], contigs[j])

\* three contigs have become one that is none of them, by a merge, a removal
\* and a merge
C20_Witness ==
    /\ pc = "condense"
    /\ Len(before) = 3 /\ Len(contigs) = 1
    /\ \A i \in 1..3 : before[i] # contigs[1]
    /\ removed = 1 /\ merged = 2

\* C3: when the loop of main stops, no contig is a contiguous substring of
\* another and no two contigs overlap, suffix on prefix, by min_overlap or more.
C3_LocalMinimum ==
    pc = "done" => NoContainment(contigs) /\ NoOverlap(contigs, min_overlap)

\* the loop has stopped on two contigs, having started with three
C3_Witness == pc = "done" /\ n0 = 3 /\ Len(contigs) = 2

\* C4, as claimed: the loop stops after at most N rounds, N the contig count
\* it began with.
C4_Original == pc = "done" => rounds <= n0

\* C4, amended: the loop never runs more than max(N, 2) rounds; every round is
\* counted, so it stops.
C4_Amended == rounds <= Max(n0, 2)

\* the loop has stopped after three rounds on three contigs
C4_Witness == pc = "done" /\ n0 = 3 /\ rounds = 3

\* C5: a second remove_contained_contigs run on the output of a first one
\* returns 0 and leaves the same contigs.
C5_RemoveTwice ==
    calls = <<"remove", "remove">> => removed = 0 /\ SameContigs(contigs, before)

\* the second run is over; the first had removed a contig and left two
C5_Witness ==
    /\ calls = <<"remove", "remove">>
    /\ Len(before) = 2
    /\ n0 = 3

\* before holds two contigs that overlap by min_overlap or more
C6_Pair ==
    /\ calls = <<"merge">>
    /\ Len(before) = 2
    /\ Overlaps(before[1], before[2], min_overlap) # {}

\* C6: merge_contigs on two such contigs leaves one contig, of length
\* len(A) + len(B) - k for the smallest k >= min_overlap at which they match
\* one way or the other.
C6_SmallestOverlap ==
    C6_Pair =>
        LET ks == Overlaps(before[1], before[2], min_overlap)
            k  == CHOOSE x \in ks : \A y \in ks : x <= y
        IN  /\ Len(contigs) = 1
            /\ Len(contigs[1]) = Len(before[1]) + Len(before[2]) - k

\* a pair that matches at two lengths has been merged
C6_Witness ==
    /\ C6_Pair
    /\ Cardinality(Overlaps(before[1], before[2], min_overlap)) >= 2
    /\ Len(contigs) = 1

====
